---- MODULE Spec2Model ----
(***************************************************************************)
(* Model of esx_service/vmci/vmci_client.c: the blocking request/reply     *)
(* client Vmci_GetReply over a VMCI stream socket, with its backend table  *)
(* ("vsocket" and "dummy"), the framing  [magic:4][length:4][payload]  and *)
(* the per-call socket life cycle.                                         *)
(*                                                                         *)
(* Environment (kernel, allocator, peer) is nondeterministic: every socket *)
(* call may fail or come back short, close() may report an error, calloc() *)
(* may return NULL, the peer may answer anything.  strdup("none") of the   *)
(* dummy backend is taken to succeed (its result is not checked by the     *)
(* source).                                                                *)
(***************************************************************************)
EXTENDS Integers, Sequences, FiniteSets, TLC

\* ------------------------------------------------------------------ bounds
NumThreads == 2     \* threads, each making one call, in the concurrent spec
MaxCalls   == 2     \* calls made one after the other in the sequential spec
MaxFds     == 2     \* size of the descriptor table available for sockets
MaxByte    == 1     \* byte values 0..MaxByte appear in payloads

\* --------------------------------------------------------- program constants
MAXBUF        == 1024 * 1024
MAGIC         == 195935983
CONN_SUCCESS  == 0
CONN_FAILURE  == 0 - 1
ESX_VMCI_CID  == 2
VSOCKET_BE_NAME == "vsocket"
DUMMY_BE_NAME   == "dummy"
AF_UNSET      == 0 - 1      \* initial value of the static af; also GetAFValue's failure
AF_VMCI       == 40         \* family value a successful resolution yields
FirstFd       == 3          \* 0,1,2 are stdin/stdout/stderr
NULL          == "NULL"

\* --------------------------------------------------------------- byte strings
\* A byte string is a sequence of runs [n |-> count, v |-> byte value], in
\* normal form: every n > 0 and adjacent runs carry different values.  This
\* keeps strings of 1 MiB tractable without changing what the code computes.
Run(n, v) == [n |-> n, v |-> v]
NUL       == << Run(1, 0) >>

RECURSIVE NBytes(_)
NBytes(bs) == IF bs = << >> THEN 0 ELSE Head(bs).n + NBytes(Tail(bs))

Cat(a, c) ==
    IF a = << >> THEN c
    ELSE IF c = << >> THEN a
    ELSE IF a[Len(a)].v = c[1].v
         THEN SubSeq(a, 1, Len(a) - 1)
              \o << Run(a[Len(a)].n + c[1].n, c[1].v) >>
              \o Tail(c)
         ELSE a \o c

\* first k bytes of bs (all of bs when it is shorter)
RECURSIVE Take(_, _)
Take(bs, k) ==
    IF k <= 0 \/ bs = << >> THEN << >>
    ELSE IF Head(bs).n >= k THEN << Run(k, Head(bs).v) >>
    ELSE << Head(bs) >> \o Take(Tail(bs), k - Head(bs).n)

\* value of the last byte of a non-empty string
LastByte(bs) == bs[Len(bs)].v

\* strnlen(s, maxlen): bytes before the first NUL, at most maxlen
RECURSIVE strnlen(_, _)
strnlen(s, maxlen) ==
    IF s = << >> \/ maxlen <= 0 THEN 0
    ELSE IF Head(s).v = 0 THEN 0
    ELSE IF Head(s).n >= maxlen THEN maxlen
    ELSE Head(s).n + strnlen(Tail(s), maxlen - Head(s).n)


\* ------------------------------------------------------------ backend table
backends ==
    << [shortName |-> VSOCKET_BE_NAME,
        name |-> "vSocket Communication Backend v0.1",
        init_sock |-> "vsock_init", release_sock |-> "vsock_release",
        get_reply |-> "vsock_get_reply"],
       [shortName |-> DUMMY_BE_NAME,
        name |-> "Dummy Communication Backend",
        init_sock |-> "dummy_init", release_sock |-> "dummy_release",
        get_reply |-> "dummy_get_reply"],
       [shortName |-> NULL, name |-> NULL, init_sock |-> NULL,
        release_sock |-> NULL, get_reply |-> NULL] >>

\* get_backend: index of the first entry whose shortName equals the argument
\* (strcmp), 0 (the NULL pointer) when the scan reaches the terminating entry
RECURSIVE get_backend_from(_, _)
get_backend_from(i, shortName) ==
    IF backends[i].shortName = NULL \/ backends[i].shortName = "" THEN 0
    ELSE IF shortName = backends[i].shortName THEN i
    ELSE get_backend_from(i + 1, shortName)

\* variant of get_backend: the comparison ignores case (strcasecmp)
Lower(n) == IF n = "Dummy" THEN "dummy" ELSE n
get_backend_nocase(shortName) == get_backend_from(1, Lower(shortName))

get_backend(shortName) == get_backend_from(1, shortName)

\* ------------------------------------------------------------------- inputs
AllThreads == 1 .. NumThreads
Fds        == FirstFd .. (FirstFd + MaxFds - 1)
Names      == {VSOCKET_BE_NAME, DUMMY_BE_NAME, "nope", "Dummy", "vsock"}
Ports      == {1019, 1234}
RunLens    == {1, MAXBUF - 1, MAXBUF, MAXBUF + 1}
Runs       == [n : RunLens, v : 0 .. MaxByte]

\* request payloads P handed to the client by its caller: nothing, a run of
\* one byte value (NUL included) of each length, or bytes around a NUL
Payloads ==
    { << >> }
    \cup { << r >> : r \in Runs }
    \cup { << Run(1, v), Run(1, 0), Run(1, v) >> : v \in 1 .. MaxByte }

\* the memory json_request points to: the payload followed by its terminator
CString(P) == Cat(P, NUL)

\* the dummy backend's reply: strdup("none"), five bytes with the terminator
NoneReply == << Run(4, 1), Run(1, 0) >>

BadMagic  == MAGIC + 1
ReplyLens == {0, 1, MAXBUF, MAXBUF + 1}

SocketErrnos == {"EMFILE"}
ConnectErrnos == {"ECONNREFUSED"}
SendErrnos   == {"EPIPE"}
RecvErrnos   == {"ECONNRESET"}
CloseErrnos  == {"EIO"}

\* what a->buf of the caller's answer holder holds when the call is made:
\* NULL, or an address "A" the caller left there
Holders == {NULL, "A"}

\* the sequential specification: one thread, every input, MaxCalls calls
SeqCfg  == [threads |-> {1}, names |-> Names, ports |-> Ports,
            payloads |-> [t \in AllThreads |-> Payloads],
            replylens |-> ReplyLens, holders |-> Holders, calls |-> MaxCalls]
\* the concurrent specification: NumThreads threads, each making one call;
\* thread t sends t bytes, so that requests and echoes tell the threads apart
ConcCfg == [threads |-> AllThreads, names |-> {VSOCKET_BE_NAME, DUMMY_BE_NAME},
            ports |-> {1019},
            payloads |-> [t \in AllThreads |-> { << Run(t, 1) >> }],
            replylens |-> {}, holders |-> {NULL}, calls |-> 1]

\* the specification for termination: one thread, MaxCalls calls, every kind
\* of backend name, and the replies that take a call down each path of
\* vsock_get_reply; which bytes travel makes no difference to whether a
\* call returns
LiveCfg == [threads |-> {1}, names |-> {VSOCKET_BE_NAME, DUMMY_BE_NAME, "nope"},
            ports |-> {1019},
            payloads |-> [t \in AllThreads |-> { << >>, << Run(1, 1) >> }],
            replylens |-> {0, 1}, holders |-> {NULL}, calls |-> MaxCalls]

\* -------------------------------------------------------------------- state
VARIABLES
    cfg,      \* which threads run and which inputs they draw (fixed by Init)
    af,       \* static int af of vsock_get_family
    afCalls,  \* [total, ok]: invocations of VMCISock_GetAFValue so far
    fds,      \* descriptor table: fd -> << >> (free) or <<thread, call>>
    conn,     \* per thread: the connection its current call opened
    pc,       \* per thread: position inside Vmci_GetReply
    args,     \* per thread: port, json_request, be_name of the current call
    be,       \* per thread: index into backends (0 = NULL)
    req,      \* per thread: be_request  [mlen, msg]
    id,       \* per thread: be_sock_id  [init, sock_id, cid, port]
    ans,      \* per thread: be_answer   [buf]
    heap,     \* per thread: the block a->buf was given in this call
    errno,    \* per thread: errno (thread local)
    ret,      \* per thread: status being returned
    b,        \* per thread: uint32_t b of vsock_get_reply
    lcl,      \* per thread: locals af and old_errno of vsock_init
    ops,      \* per thread: calls made so far in the current call, in order
    ncalls    \* per thread: number of Vmci_GetReply calls started

vars == << cfg, af, afCalls, fds, conn, pc, args, be, req, id, ans, heap,
           errno, ret, b, lcl, ops, ncalls >>

NoConn   == [exists |-> FALSE, call |-> 0, wire |-> << >>, reply |-> << >>,
             closes |-> 0]
NoBlock  == [state |-> "none", size |-> 0, data |-> << >>, frees |-> 0]
NoArgs   == [port |-> 0, json_request |-> NUL, be_name |-> ""]
NoReq    == [mlen |-> 0, msg |-> << >>]
NoId     == [init |-> FALSE, sock_id |-> 0, cid |-> 0, port |-> 0]
NoLcl    == [af |-> 0, old_errno |-> "0"]

Op(o, fd, c, r) == [op |-> o, fd |-> fd, conn |-> c, res |-> r]

InitWith(c) ==
    /\ cfg = c
    /\ af = AF_UNSET
    /\ afCalls = [total |-> 0, ok |-> 0]
    /\ fds = [f \in Fds |-> << >>]
    /\ conn = [t \in AllThreads |-> NoConn]
    /\ pc = [t \in AllThreads |-> "idle"]
    /\ args = [t \in AllThreads |-> NoArgs]
    /\ be = [t \in AllThreads |-> 0]
    /\ req = [t \in AllThreads |-> NoReq]
    /\ id = [t \in AllThreads |-> NoId]
    /\ \E h \in c.holders : ans = [t \in AllThreads |-> [buf |-> h]]
    /\ heap = [t \in AllThreads |-> NoBlock]
    /\ errno = [t \in AllThreads |-> "0"]
    /\ ret = [t \in AllThreads |-> 0]
    /\ b = [t \in AllThreads |-> 0]
    /\ lcl = [t \in AllThreads |-> NoLcl]
    /\ ops = [t \in AllThreads |-> << >>]
    /\ ncalls = [t \in AllThreads |-> 0]

Init     == InitWith(SeqCfg)
InitConc == InitWith(ConcCfg)
InitLive == InitWith(LiveCfg)

\* ---------------------------------------------------------- Vmci_GetReply
\* variant of RequestLen: the terminator is not counted
RequestLen_no_terminator(json_request) == strnlen(json_request, MAXBUF)

\* req.mlen = strnlen(json_request, MAXBUF) + 1;  (line 325)
RequestLen(json_request) == strnlen(json_request, MAXBUF) + 1

\* Entry point up to the call of host_request: look the backend up, fail
\* with ENXIO when there is none, otherwise build the request.  ans is the
\* holder the caller passes, with whatever the caller left in it.
Vmci_GetReply(t) ==
    /\ pc[t] = "idle"
    /\ ncalls[t] < cfg.calls
    /\ \E port \in cfg.ports, P \in cfg.payloads[t], be_name \in cfg.names :
         LET json_request == CString(P)
             found == get_backend(be_name)
         IN  /\ args' = [args EXCEPT ![t] = [port |-> port,
                                            json_request |-> json_request,
                                            be_name |-> be_name]]
             /\ be' = [be EXCEPT ![t] = found]
             /\ IF found = 0
                THEN /\ errno' = [errno EXCEPT ![t] = "ENXIO"]
                     /\ ret' = [ret EXCEPT ![t] = CONN_FAILURE]
                     /\ pc' = [pc EXCEPT ![t] = "done"]
                     /\ UNCHANGED req
                ELSE /\ req' = [req EXCEPT ![t] =
                           [mlen |-> RequestLen(json_request),
                            msg |-> json_request]]
                     /\ pc' = [pc EXCEPT ![t] = "init"]
                     /\ UNCHANGED << errno, ret >>
    /\ ncalls' = [ncalls EXCEPT ![t] = @ + 1]
    /\ UNCHANGED << cfg, af, afCalls, fds, conn, id, ans, heap, b, lcl, ops >>

\* Vmci_GetReply has returned (line 322 or 328): the caller has taken the
\* status, errno and the reply, and the frames of the call are gone.  errno,
\* the static af and the descriptor table are what outlives the call.  The
\* caller gets a holder ready for its next call.
Returned(t) ==
    /\ pc[t] = "done"
    /\ pc' = [pc EXCEPT ![t] = "idle"]
    /\ args' = [args EXCEPT ![t] = NoArgs]
    /\ be' = [be EXCEPT ![t] = 0]
    /\ req' = [req EXCEPT ![t] = NoReq]
    /\ conn' = [conn EXCEPT ![t] = NoConn]
    /\ id' = [id EXCEPT ![t] = NoId]
    /\ \E h \in cfg.holders : ans' = [ans EXCEPT ![t] = [buf |-> h]]
    /\ heap' = [heap EXCEPT ![t] = NoBlock]
    /\ ret' = [ret EXCEPT ![t] = 0]
    /\ b' = [b EXCEPT ![t] = 0]
    /\ lcl' = [lcl EXCEPT ![t] = NoLcl]
    /\ ops' = [ops EXCEPT ![t] = << >>]
    /\ UNCHANGED << cfg, af, afCalls, fds, errno, ncalls >>

\* -------------------------------------------------------------- host_request
\* variant of AfterInit: release_sock is called even when init_sock failed
AfterInit_always_release(status) == IF status # 0 THEN "release" ELSE "get_reply"

\* if ((ret = be->init_sock(&id, cid, port)) != 0) return ret;  (lines 297-299)
\* where the call continues once init_sock has returned status
AfterInit(status) == IF status # 0 THEN "done" ELSE "get_reply"

\* ------------------------------------------------------------ dummy backend
\* host_request line 297 dispatching to dummy_init: always CONN_SUCCESS
dummy_init(t) ==
    /\ pc[t] = "init"
    /\ backends[be[t]].init_sock = "dummy_init"
    /\ ops' = [ops EXCEPT ![t] = Append(@, Op("init", 0, << >>, "ok"))]
    /\ pc' = [pc EXCEPT ![t] = AfterInit(CONN_SUCCESS)]
    /\ UNCHANGED << cfg, af, afCalls, fds, conn, args, be, req, id, ans, heap,
                    errno, ret, b, lcl, ncalls >>

\* variant of dummy_get_reply: the reply is a copy of the request
dummy_get_reply_echo(t) ==
    /\ pc[t] = "get_reply"
    /\ backends[be[t]].get_reply = "dummy_get_reply"
    /\ ops' = [ops EXCEPT ![t] = Append(@, Op("get_reply", 0, << >>, "ok"))]
    /\ heap' = [heap EXCEPT ![t] = [state |-> "live", size |-> req[t].mlen,
                                    data |-> Take(req[t].msg, req[t].mlen),
                                    frees |-> 0]]
    /\ ans' = [ans EXCEPT ![t] = [buf |-> "B"]]
    /\ ret' = [ret EXCEPT ![t] = CONN_SUCCESS]
    /\ pc' = [pc EXCEPT ![t] = "release"]
    /\ UNCHANGED << cfg, af, afCalls, fds, conn, args, be, req, id, errno, b,
                    lcl, ncalls >>

\* host_request line 301 dispatching to dummy_get_reply: a->buf = strdup("none")
dummy_get_reply(t) ==
    /\ pc[t] = "get_reply"
    /\ backends[be[t]].get_reply = "dummy_get_reply"
    /\ ops' = [ops EXCEPT ![t] = Append(@, Op("get_reply", 0, << >>, "ok"))]
    /\ heap' = [heap EXCEPT ![t] = [state |-> "live", size |-> NBytes(NoneReply),
                                    data |-> NoneReply, frees |-> 0]]
    /\ ans' = [ans EXCEPT ![t] = [buf |-> "B"]]
    /\ ret' = [ret EXCEPT ![t] = CONN_SUCCESS]
    /\ pc' = [pc EXCEPT ![t] = "release"]
    /\ UNCHANGED << cfg, af, afCalls, fds, conn, args, be, req, id, errno, b,
                    lcl, ncalls >>

\* host_request lines 302-304 dispatching to dummy_release, then return ret
dummy_release(t) ==
    /\ pc[t] = "release"
    /\ backends[be[t]].release_sock = "dummy_release"
    /\ ops' = [ops EXCEPT ![t] = Append(@, Op("release", 0, << >>, "ok"))]
    /\ pc' = [pc EXCEPT ![t] = "done"]
    /\ UNCHANGED << cfg, af, afCalls, fds, conn, args, be, req, id, ans, heap,
                    errno, ret, b, lcl, ncalls >>


\* ------------------------------------------------------- kernel and the peer
Word(v)  == [k |-> "word", w |-> v, d |-> << >>]
Data(bs) == [k |-> "data", w |-> 0, d |-> bs]
Short    == [k |-> "short", w |-> 0, d |-> << >>]

\* the connection a descriptor refers to is still the one its owner tracks
Live(c) == c # << >> /\ conn[c[1]].exists /\ conn[c[1]].call = c[2]

FreeFds   == { f \in Fds : fds[f] = << >> }
LowestFree == CHOOSE f \in FreeFds : \A g \in FreeFds : f <= g

\* bytes written to descriptor fd reach the connection it refers to
Written(fd, item) ==
    LET c == fds[fd]
    IN  IF Live(c) THEN [conn EXCEPT ![c[1]].wire = Append(@, item)] ELSE conn

\* what the peer of descriptor fd has sent back so far: << >> or <<reply>>
Incoming(fd) ==
    LET c == fds[fd] IN IF Live(c) THEN conn[c[1]].reply ELSE << >>

\* close(fd): the descriptor is released; errno is left alone ("keep") or set
ClosedFds(fd)  == [fds EXCEPT ![fd] = << >>]
ClosedConn(fd) ==
    LET c == fds[fd]
    IN  IF Live(c) THEN [conn EXCEPT ![c[1]].closes = @ + 1] ELSE conn
CloseOutcomes(fd) == IF fds[fd] = << >> THEN {"EBADF"} ELSE {"keep"} \cup CloseErrnos

\* replies a peer may produce for a completely received request
PeerReplies(wire) ==
    { [magic |-> MAGIC, len |-> wire[2].w, data |-> wire[3].d, echo |-> TRUE],
      [magic |-> BadMagic, len |-> 0, data |-> << >>, echo |-> FALSE] }
    \cup { [magic |-> MAGIC, len |-> n,
            data |-> IF n = 0 THEN << >> ELSE << Run(n, v) >>, echo |-> FALSE]
           : n \in cfg.replylens, v \in 0 .. MaxByte }

\* the peer answers once it holds a whole request frame
PeerRespond(t) ==
    /\ conn[t].exists
    /\ \E f \in Fds : fds[f] = << t, conn[t].call >>
    /\ Len(conn[t].wire) = 3
    /\ \A i \in 1 .. 3 : conn[t].wire[i].k # "short"
    /\ conn[t].reply = << >>
    /\ \E r \in PeerReplies(conn[t].wire) :
         conn' = [conn EXCEPT ![t].reply = << r >>]
    /\ UNCHANGED << cfg, af, afCalls, fds, pc, args, be, req, id, ans, heap,
                    errno, ret, b, lcl, ops, ncalls >>

\* ---------------------------------------------------------- vsocket backend
\* variant of vsock_get_family_test: the resolution is tried once per
\* process, a failure is remembered
vsock_get_family_test_once(t) ==
    /\ pc[t] = "init"
    /\ backends[be[t]].init_sock = "vsock_init"
    /\ ops' = [ops EXCEPT ![t] = Append(@, Op("init", 0, << >>, "ok"))]
    /\ pc' = [pc EXCEPT ![t] = IF af = AF_UNSET /\ afCalls.total = 0
                               THEN "af_call" ELSE "af_ret"]
    /\ UNCHANGED << cfg, af, afCalls, fds, conn, args, be, req, id, ans, heap,
                    errno, ret, b, lcl, ncalls >>

\* host_request line 297 dispatching to vsock_init, which enters
\* vsock_get_family and tests the static:  if (af == -1)
vsock_get_family_test(t) ==
    /\ pc[t] = "init"
    /\ backends[be[t]].init_sock = "vsock_init"
    /\ ops' = [ops EXCEPT ![t] = Append(@, Op("init", 0, << >>, "ok"))]
    /\ pc' = [pc EXCEPT ![t] = IF af = AF_UNSET THEN "af_call" ELSE "af_ret"]
    /\ UNCHANGED << cfg, af, afCalls, fds, conn, args, be, req, id, ans, heap,
                    errno, ret, b, lcl, ncalls >>

\* af = VMCISock_GetAFValue();  the resolution yields the family or -1
vsock_get_family_resolve(t) ==
    /\ pc[t] = "af_call"
    /\ \E v \in {AF_UNSET, AF_VMCI} :
         /\ af' = v
         /\ afCalls' = [total |-> afCalls.total + 1,
                        ok |-> afCalls.ok + (IF v = AF_UNSET THEN 0 ELSE 1)]
         /\ ops' = [ops EXCEPT ![t] = Append(@, Op("GetAFValue", 0, << >>,
                                   IF v = AF_UNSET THEN "err" ELSE "ok"))]
    /\ pc' = [pc EXCEPT ![t] = "af_ret"]
    /\ UNCHANGED << cfg, fds, conn, args, be, req, id, ans, heap, errno, ret,
                    b, lcl, ncalls >>

\* return af;  and vsock_init's test of the result (lines 171, 183-186)
vsock_get_family_return(t) ==
    /\ pc[t] = "af_ret"
    /\ lcl' = [lcl EXCEPT ![t].af = af]
    /\ IF af = AF_UNSET
       THEN /\ errno' = [errno EXCEPT ![t] = "EAFNOSUPPORT"]
            /\ ret' = [ret EXCEPT ![t] = CONN_FAILURE]
            /\ pc' = [pc EXCEPT ![t] = AfterInit(CONN_FAILURE)]
       ELSE /\ pc' = [pc EXCEPT ![t] = "socket"]
            /\ UNCHANGED << errno, ret >>
    /\ UNCHANGED << cfg, af, afCalls, fds, conn, args, be, req, id, ans, heap,
                    b, ops, ncalls >>

\* sock = socket(af, SOCK_STREAM, 0);  id->sock_id = sock  (lines 187-192)
vsock_init_socket(t) ==
    /\ pc[t] = "socket"
    /\ \/ /\ FreeFds # {}
          /\ LET sock == LowestFree
             IN  /\ fds' = [fds EXCEPT ![sock] = << t, ncalls[t] >>]
                 /\ conn' = [conn EXCEPT ![t] =
                       [exists |-> TRUE, call |-> ncalls[t], wire |-> << >>,
                        reply |-> << >>, closes |-> 0]]
                 /\ id' = [id EXCEPT ![t] = [init |-> TRUE, sock_id |-> sock,
                                             cid |-> 0, port |-> 0]]
                 /\ ops' = [ops EXCEPT ![t] =
                       Append(@, Op("socket", sock, << t, ncalls[t] >>, "ok"))]
          /\ pc' = [pc EXCEPT ![t] = "connect"]
          /\ UNCHANGED << errno, ret >>
       \/ /\ \E e \in SocketErrnos : errno' = [errno EXCEPT ![t] = e]
          /\ ops' = [ops EXCEPT ![t] = Append(@, Op("socket", 0, << >>, "err"))]
          /\ ret' = [ret EXCEPT ![t] = CONN_FAILURE]
          /\ pc' = [pc EXCEPT ![t] = AfterInit(CONN_FAILURE)]
          /\ UNCHANGED << fds, conn, id >>
    /\ UNCHANGED << cfg, af, afCalls, args, be, req, ans, heap, b, lcl, ncalls >>

\* fill id->addr and connect (lines 195-201); on failure errno is saved
vsock_init_connect(t) ==
    /\ pc[t] = "connect"
    /\ LET sock == id[t].sock_id
       IN  /\ id' = [id EXCEPT ![t].cid = ESX_VMCI_CID, ![t].port = args[t].port]
           /\ \/ /\ fds[sock] # << >>
                 /\ ops' = [ops EXCEPT ![t] =
                       Append(@, Op("connect", sock, fds[sock], "ok"))]
                 /\ pc' = [pc EXCEPT ![t] = AfterInit(CONN_SUCCESS)]
                 /\ UNCHANGED << errno, lcl >>
              \/ /\ \E e \in (IF fds[sock] = << >> THEN {"EBADF"} ELSE ConnectErrnos) :
                      /\ errno' = [errno EXCEPT ![t] = e]
                      /\ lcl' = [lcl EXCEPT ![t].old_errno = e]
                 /\ ops' = [ops EXCEPT ![t] =
                       Append(@, Op("connect", sock, fds[sock], "err"))]
                 /\ pc' = [pc EXCEPT ![t] = "init_close"]
    /\ UNCHANGED << cfg, af, afCalls, fds, conn, args, be, req, ans, heap, ret,
                    b, ncalls >>

\* variant of vsock_init_release: the failed connect returns without
\* vsock_release, leaving the socket open
vsock_init_release_leak(t) ==
    /\ pc[t] = "init_close"
    /\ ret' = [ret EXCEPT ![t] = CONN_FAILURE]
    /\ pc' = [pc EXCEPT ![t] = "done"]
    /\ UNCHANGED << cfg, af, afCalls, fds, conn, args, be, req, id, ans, heap,
                    errno, b, lcl, ops, ncalls >>

\* variant of RestoredErrno: errno is not put back after vsock_release
RestoredErrno_clobbered(old_errno, e) == IF e = "keep" THEN old_errno ELSE e

\* int old_errno = errno; vsock_release(id); errno = old_errno;  (201-203)
\* errno after the three statements, e being what close() did to errno
RestoredErrno(old_errno, e) == old_errno

\* variant of vsock_init_release: after closing the socket of the failed
\* connect, vsock_init reports success and the handle is used further
vsock_init_release_reuse(t) ==
    /\ pc[t] = "init_close"
    /\ LET sock == id[t].sock_id
       IN  /\ fds' = ClosedFds(sock)
           /\ conn' = ClosedConn(sock)
           /\ \E e \in CloseOutcomes(sock) :
                /\ ops' = [ops EXCEPT ![t] =
                      @ \o << Op("release", 0, << >>, "ok"),
                              Op("close", sock, fds[sock],
                                 IF e = "keep" THEN "ok" ELSE "err") >>]
                /\ errno' = [errno EXCEPT ![t] = RestoredErrno(lcl[t].old_errno, e)]
    /\ pc' = [pc EXCEPT ![t] = AfterInit(CONN_SUCCESS)]
    /\ UNCHANGED << cfg, af, afCalls, args, be, req, id, ans, heap, ret, b,
                    lcl, ncalls >>

\* connect failed: vsock_release(id); errno = old_errno; return CONN_FAILURE
\* (lines 202-204); host_request then returns without release (line 298)
vsock_init_release(t) ==
    /\ pc[t] = "init_close"
    /\ LET sock == id[t].sock_id
       IN  /\ fds' = ClosedFds(sock)
           /\ conn' = ClosedConn(sock)
           /\ \E e \in CloseOutcomes(sock) :
                /\ ops' = [ops EXCEPT ![t] =
                      @ \o << Op("release", 0, << >>, "ok"),
                              Op("close", sock, fds[sock],
                                 IF e = "keep" THEN "ok" ELSE "err") >>]
                /\ errno' = [errno EXCEPT ![t] = RestoredErrno(lcl[t].old_errno, e)]
    /\ ret' = [ret EXCEPT ![t] = CONN_FAILURE]
    /\ pc' = [pc EXCEPT ![t] = AfterInit(CONN_FAILURE)]
    /\ UNCHANGED << cfg, af, afCalls, args, be, req, id, ans, heap, b, lcl,
                    ncalls >>


\* ---------------------------------------------------------- vsock_get_reply
\* variant of SendStep: only ret == -1 is tested, a short write goes unnoticed
SendStep_ignore_short(t, name, item, next) ==
    LET sock == id[t].sock_id
    IN  \/ /\ fds[sock] # << >>
           /\ conn' = Written(sock, item)
           /\ ops' = [ops EXCEPT ![t] = Append(@, Op(name, sock, fds[sock], "ok"))]
           /\ pc' = [pc EXCEPT ![t] = next]
           /\ UNCHANGED << errno, ret >>
        \/ /\ fds[sock] # << >>
           /\ conn' = Written(sock, Short)
           /\ ops' = [ops EXCEPT ![t] = Append(@, Op(name, sock, fds[sock], "short"))]
           /\ pc' = [pc EXCEPT ![t] = next]
           /\ UNCHANGED << errno, ret >>
        \/ /\ \E e \in (IF fds[sock] = << >> THEN {"EBADF"} ELSE SendErrnos) :
                errno' = [errno EXCEPT ![t] = e]
           /\ ops' = [ops EXCEPT ![t] = Append(@, Op(name, sock, fds[sock], "err"))]
           /\ ret' = [ret EXCEPT ![t] = CONN_FAILURE]
           /\ pc' = [pc EXCEPT ![t] = "release"]
           /\ UNCHANGED conn

\* one send() of vsock_get_reply and the test  ret == -1 || ret != size :
\* the item goes out whole and the call moves on to next, or it goes out short
\* or fails and vsock_get_reply returns CONN_FAILURE (host_request: release)
SendStep(t, name, item, next) ==
    LET sock == id[t].sock_id
    IN  \/ /\ fds[sock] # << >>
           /\ conn' = Written(sock, item)
           /\ ops' = [ops EXCEPT ![t] = Append(@, Op(name, sock, fds[sock], "ok"))]
           /\ pc' = [pc EXCEPT ![t] = next]
           /\ UNCHANGED << errno, ret >>
        \/ /\ fds[sock] # << >>
           /\ conn' = Written(sock, Short)
           /\ ops' = [ops EXCEPT ![t] = Append(@, Op(name, sock, fds[sock], "short"))]
           /\ ret' = [ret EXCEPT ![t] = CONN_FAILURE]
           /\ pc' = [pc EXCEPT ![t] = "release"]
           /\ UNCHANGED errno
        \/ /\ \E e \in (IF fds[sock] = << >> THEN {"EBADF"} ELSE SendErrnos) :
                errno' = [errno EXCEPT ![t] = e]
           /\ ops' = [ops EXCEPT ![t] = Append(@, Op(name, sock, fds[sock], "err"))]
           /\ ret' = [ret EXCEPT ![t] = CONN_FAILURE]
           /\ pc' = [pc EXCEPT ![t] = "release"]
           /\ UNCHANGED conn

\* variant of send_magic: vsock_get_reply starts by clearing a->buf
send_magic_clears_answer(t) ==
    /\ pc[t] = "get_reply"
    /\ backends[be[t]].get_reply = "vsock_get_reply"
    /\ b' = [b EXCEPT ![t] = MAGIC]
    /\ ans' = [ans EXCEPT ![t] = [buf |-> NULL]]
    /\ SendStep(t, "send_magic", Word(MAGIC), "send_len")
    /\ UNCHANGED << cfg, af, afCalls, fds, args, be, req, id, heap, lcl,
                    ncalls >>

\* b = MAGIC; send(s->sock_id, &b, sizeof b, 0)  (lines 224-228)
send_magic(t) ==
    /\ pc[t] = "get_reply"
    /\ backends[be[t]].get_reply = "vsock_get_reply"
    /\ b' = [b EXCEPT ![t] = MAGIC]
    /\ SendStep(t, "send_magic", Word(MAGIC), "send_len")
    /\ UNCHANGED << cfg, af, afCalls, fds, args, be, req, id, ans, heap, lcl,
                    ncalls >>

\* send(s->sock_id, &r->mlen, sizeof r->mlen, 0)  (lines 230-233)
send_len(t) ==
    /\ pc[t] = "send_len"
    /\ SendStep(t, "send_len", Word(req[t].mlen), "send_payload")
    /\ UNCHANGED << cfg, af, afCalls, fds, args, be, req, id, ans, heap, b, lcl,
                    ncalls >>

\* send(s->sock_id, r->msg, r->mlen, 0)  (lines 235-238)
send_payload(t) ==
    /\ pc[t] = "send_payload"
    /\ SendStep(t, "send_payload", Data(Take(req[t].msg, req[t].mlen)),
                "recv_magic")
    /\ UNCHANGED << cfg, af, afCalls, fds, args, be, req, id, ans, heap, b, lcl,
                    ncalls >>

\* a recv() of vsock_get_reply that does not deliver all it was asked for:
\* short (the peer has sent something) or -1 with errno set
RecvFails(t, name) ==
    LET sock == id[t].sock_id
    IN  /\ \/ /\ Incoming(sock) # << >>
              /\ ops' = [ops EXCEPT ![t] =
                    Append(@, Op(name, sock, fds[sock], "short"))]
              /\ UNCHANGED errno
           \/ /\ \E e \in (IF fds[sock] = << >> THEN {"EBADF"} ELSE RecvErrnos) :
                   errno' = [errno EXCEPT ![t] = e]
              /\ ops' = [ops EXCEPT ![t] =
                    Append(@, Op(name, sock, fds[sock], "err"))]
        /\ ret' = [ret EXCEPT ![t] = CONN_FAILURE]
        /\ pc' = [pc EXCEPT ![t] = "release"]

\* b = 0; recv(s->sock_id, &b, sizeof b, 0); if (b != MAGIC) ...  (243-252)
recv_magic(t) ==
    /\ pc[t] = "recv_magic"
    /\ LET sock == id[t].sock_id
       IN  \/ /\ Incoming(sock) # << >>
              /\ LET got == Incoming(sock)[1].magic
                 IN  /\ b' = [b EXCEPT ![t] = got]
                     /\ IF got # MAGIC
                        THEN /\ errno' = [errno EXCEPT ![t] = "EBADMSG"]
                             /\ ret' = [ret EXCEPT ![t] = CONN_FAILURE]
                             /\ pc' = [pc EXCEPT ![t] = "release"]
                        ELSE /\ pc' = [pc EXCEPT ![t] = "recv_len"]
                             /\ UNCHANGED << errno, ret >>
              /\ ops' = [ops EXCEPT ![t] =
                    Append(@, Op("recv_magic", sock, fds[sock], "ok"))]
           \/ /\ b' = [b EXCEPT ![t] = 0]
              /\ RecvFails(t, "recv_magic")
    /\ UNCHANGED << cfg, af, afCalls, fds, conn, args, be, req, id, ans, heap,
                    lcl, ncalls >>

\* b = 0; recv(s->sock_id, &b, sizeof b, 0)  (lines 255-260)
recv_len(t) ==
    /\ pc[t] = "recv_len"
    /\ LET sock == id[t].sock_id
       IN  \/ /\ Incoming(sock) # << >>
              /\ b' = [b EXCEPT ![t] = Incoming(sock)[1].len]
              /\ ops' = [ops EXCEPT ![t] =
                    Append(@, Op("recv_len", sock, fds[sock], "ok"))]
              /\ pc' = [pc EXCEPT ![t] = "calloc"]
              /\ UNCHANGED << errno, ret >>
           \/ /\ b' = [b EXCEPT ![t] = 0]
              /\ RecvFails(t, "recv_len")
    /\ UNCHANGED << cfg, af, afCalls, fds, conn, args, be, req, id, ans, heap,
                    lcl, ncalls >>


\* a->buf = calloc(1, b); if (!a->buf) return CONN_FAILURE;  (lines 262-265)
\* calloc(1, 0) may give NULL without touching errno
calloc_buf(t) ==
    /\ pc[t] = "calloc"
    /\ \/ /\ heap' = [heap EXCEPT ![t] = [state |-> "live", size |-> b[t],
                                          data |-> << >>, frees |-> 0]]
          /\ ans' = [ans EXCEPT ![t] = [buf |-> "B"]]
          /\ ops' = [ops EXCEPT ![t] = Append(@, Op("calloc", 0, << >>, "ok"))]
          /\ pc' = [pc EXCEPT ![t] = "recv_payload"]
          /\ UNCHANGED << errno, ret >>
       \/ /\ ans' = [ans EXCEPT ![t] = [buf |-> NULL]]
          /\ \E e \in (IF b[t] = 0 THEN {"keep", "ENOMEM"} ELSE {"ENOMEM"}) :
               errno' = [errno EXCEPT ![t] = IF e = "keep" THEN @ ELSE e]
          /\ ops' = [ops EXCEPT ![t] = Append(@, Op("calloc", 0, << >>, "err"))]
          /\ ret' = [ret EXCEPT ![t] = CONN_FAILURE]
          /\ pc' = [pc EXCEPT ![t] = "release"]
          /\ UNCHANGED heap
    /\ UNCHANGED << cfg, af, afCalls, fds, conn, args, be, req, id, b, lcl,
                    ncalls >>

\* variant of Freed: the failure path forgets free(a->buf)
Freed_forgotten(h) == h

\* free(a->buf) on the failure path of the payload read (line 269)
Freed(h) == [h EXCEPT !.state = "freed", !.frees = @ + 1]

\* ret = recv(s->sock_id, a->buf, b, 0);
\* if (ret == -1 || ret != b) { free(a->buf); return CONN_FAILURE; }
\* return CONN_SUCCESS;   (lines 267-273)
recv_payload(t) ==
    /\ pc[t] = "recv_payload"
    /\ LET sock == id[t].sock_id
       IN  \/ /\ Incoming(sock) # << >>
              /\ NBytes(Incoming(sock)[1].data) >= b[t]
              /\ heap' = [heap EXCEPT ![t].data = Take(Incoming(sock)[1].data, b[t])]
              /\ ops' = [ops EXCEPT ![t] =
                    Append(@, Op("recv_payload", sock, fds[sock], "ok"))]
              /\ ret' = [ret EXCEPT ![t] = CONN_SUCCESS]
              /\ UNCHANGED errno
           \/ /\ Incoming(sock) # << >>
              /\ b[t] > 0
              /\ \E k \in {0, b[t] - 1} :
                   heap' = [heap EXCEPT ![t] =
                       Freed([@ EXCEPT !.data = Take(Incoming(sock)[1].data, k)])]
              /\ ops' = [ops EXCEPT ![t] =
                    Append(@, Op("recv_payload", sock, fds[sock], "short"))]
              /\ ret' = [ret EXCEPT ![t] = CONN_FAILURE]
              /\ UNCHANGED errno
           \/ /\ \E e \in (IF fds[sock] = << >> THEN {"EBADF"} ELSE RecvErrnos) :
                   errno' = [errno EXCEPT ![t] = e]
              /\ heap' = [heap EXCEPT ![t] = Freed(@)]
              /\ ops' = [ops EXCEPT ![t] =
                    Append(@, Op("recv_payload", sock, fds[sock], "err"))]
              /\ ret' = [ret EXCEPT ![t] = CONN_FAILURE]
    /\ pc' = [pc EXCEPT ![t] = "release"]
    /\ UNCHANGED << cfg, af, afCalls, fds, conn, args, be, req, id, ans, b, lcl,
                    ncalls >>

\* variant of vsock_release: the close lingers until the peer has answered
vsock_release_linger(t) ==
    /\ pc[t] = "release"
    /\ backends[be[t]].release_sock = "vsock_release"
    /\ \E sock \in (IF id[t].init THEN {id[t].sock_id} ELSE Fds) :
         /\ Incoming(sock) # << >>
         /\ fds' = ClosedFds(sock)
         /\ conn' = ClosedConn(sock)
         /\ \E e \in CloseOutcomes(sock) :
              /\ ops' = [ops EXCEPT ![t] =
                    @ \o << Op("release", 0, << >>, "ok"),
                            Op("close", sock, fds[sock],
                               IF e = "keep" THEN "ok" ELSE "err") >>]
              /\ errno' = [errno EXCEPT ![t] = IF e = "keep" THEN @ ELSE e]
    /\ pc' = [pc EXCEPT ![t] = "done"]
    /\ UNCHANGED << cfg, af, afCalls, args, be, req, id, ans, heap, ret, b, lcl,
                    ncalls >>

\* host_request lines 302-304 dispatching to vsock_release: close(id->sock_id),
\* then return ret.  A sock_id that was never assigned holds any value.
vsock_release(t) ==
    /\ pc[t] = "release"
    /\ backends[be[t]].release_sock = "vsock_release"
    /\ \E sock \in (IF id[t].init THEN {id[t].sock_id} ELSE Fds) :
         /\ fds' = ClosedFds(sock)
         /\ conn' = ClosedConn(sock)
         /\ \E e \in CloseOutcomes(sock) :
              /\ ops' = [ops EXCEPT ![t] =
                    @ \o << Op("release", 0, << >>, "ok"),
                            Op("close", sock, fds[sock],
                               IF e = "keep" THEN "ok" ELSE "err") >>]
              /\ errno' = [errno EXCEPT ![t] = IF e = "keep" THEN @ ELSE e]
    /\ pc' = [pc EXCEPT ![t] = "done"]
    /\ UNCHANGED << cfg, af, afCalls, args, be, req, id, ans, heap, ret, b, lcl,
                    ncalls >>

\* ------------------------------------------------------------ specification
Next ==
    \/ \E t \in cfg.threads : Vmci_GetReply(t)
    \/ \E t \in cfg.threads : Returned(t)
    \/ \E t \in cfg.threads : dummy_init(t)
    \/ \E t \in cfg.threads : dummy_get_reply(t)
    \/ \E t \in cfg.threads : dummy_release(t)
    \/ \E t \in cfg.threads : vsock_get_family_test(t)
    \/ \E t \in cfg.threads : vsock_get_family_resolve(t)
    \/ \E t \in cfg.threads : vsock_get_family_return(t)
    \/ \E t \in cfg.threads : vsock_init_socket(t)
    \/ \E t \in cfg.threads : vsock_init_connect(t)
    \/ \E t \in cfg.threads : vsock_init_release(t)
    \/ \E t \in cfg.threads : send_magic(t)
    \/ \E t \in cfg.threads : send_len(t)
    \/ \E t \in cfg.threads : send_payload(t)
    \/ \E t \in cfg.threads : PeerRespond(t)
    \/ \E t \in cfg.threads : recv_magic(t)
    \/ \E t \in cfg.threads : recv_len(t)
    \/ \E t \in cfg.threads : calloc_buf(t)
    \/ \E t \in cfg.threads : recv_payload(t)
    \/ \E t \in cfg.threads : vsock_release(t)

Spec     == Init /\ [][Next]_vars
SpecConc == InitConc /\ [][Next]_vars

\* the steps thread t takes inside a call of Vmci_GetReply.  Each is a
\* statement of straight-line code or a socket call; a blocked recv() is
\* ended by the peer's answer or by an error
ProgStep(t) ==
    \/ dummy_init(t) \/ dummy_get_reply(t) \/ dummy_release(t)
    \/ vsock_get_family_test(t) \/ vsock_get_family_resolve(t)
    \/ vsock_get_family_return(t)
    \/ vsock_init_socket(t) \/ vsock_init_connect(t) \/ vsock_init_release(t)
    \/ send_magic(t) \/ send_len(t) \/ send_payload(t)
    \/ recv_magic(t) \/ recv_len(t) \/ calloc_buf(t) \/ recv_payload(t)
    \/ vsock_release(t)

\* calls made one after the other by a running thread, with socket calls
\* that come back: the thread is not stopped for ever inside a call, and no
\* socket call stays blocked for ever.  Nothing is asked of the caller
\* (Vmci_GetReply, Returned) or of the peer (PeerRespond).
SpecLive ==
    InitLive /\ [][Next]_vars /\ \A t \in AllThreads : WF_vars(ProgStep(t))


\* ------------------------------------------------------------------ helpers
\* for the properties
CountOps(t, name) ==
    Cardinality({ i \in DOMAIN ops[t] : ops[t][i].op = name })
HasOp(t, name, res) ==
    \E i \in DOMAIN ops[t] : ops[t][i].op = name /\ ops[t][i].res = res
SockOps == {"socket", "connect", "send_magic", "send_len", "send_payload",
            "recv_magic", "recv_len", "recv_payload", "close"}
SocketCreated(t) == HasOp(t, "socket", "ok")
IsVsocket(t) == be[t] # 0 /\ backends[be[t]].shortName = VSOCKET_BE_NAME
IsDummy(t)   == be[t] # 0 /\ backends[be[t]].shortName = DUMMY_BE_NAME
\* the payload P the caller passed: json_request without its terminator
PayloadOf(t) == Take(args[t].json_request, NBytes(args[t].json_request) - 1)
NoNul(bs)    == \A i \in DOMAIN bs : bs[i].v # 0
Called(t)    == pc[t] # "idle"
\* the call has read a magic word from its peer and it was not MAGIC
BadMagicSeen(t) ==
    /\ HasOp(t, "recv_magic", "ok")
    /\ conn[t].reply # << >>
    /\ conn[t].reply[1].magic # MAGIC


\* ================================================================ properties

\* C1 (as stated): for every call that reaches host_request the transport's
\* release runs exactly once before the call returns, whichever step failed.
C1_ReleaseExactlyOnce ==
    \A t \in cfg.threads :
        (pc[t] = "done" /\ be[t] # 0) => CountOps(t, "release") = 1

\* C1 (amended): when the call returns, release has run exactly once if the
\* call got a connection (the dummy backend, or a socket was created: connect,
\* any send or any receive may have failed), closing that socket once; it has
\* not run at all when init failed before a socket existed.
C1_ReleaseOncePerSocket ==
    \A t \in cfg.threads :
        (pc[t] = "done" /\ be[t] # 0) =>
            /\ CountOps(t, "release") =
                  (IF IsDummy(t) \/ SocketCreated(t) THEN 1 ELSE 0)
            /\ CountOps(t, "close") = (IF SocketCreated(t) THEN 1 ELSE 0)

C1_Witness ==
    \E t \in cfg.threads :
        /\ pc[t] = "done" /\ IsVsocket(t) /\ ret[t] = CONN_FAILURE
        /\ HasOp(t, "connect", "err")
        /\ CountOps(t, "release") = 1

\* C2: when the reply's magic differs from MAGIC the call fails with errno
\* EBADMSG at return, nothing more is read from the connection, and the
\* connection is closed exactly once.
C2_MagicMismatch ==
    \A t \in cfg.threads :
        BadMagicSeen(t) =>
            /\ ~ HasOp(t, "recv_len", "ok") /\ CountOps(t, "recv_len") = 0
            /\ CountOps(t, "recv_payload") = 0
            /\ pc[t] = "done" =>
                  /\ ret[t] = CONN_FAILURE
                  /\ errno[t] = "EBADMSG"
                  /\ CountOps(t, "close") = 1

\* C3: a request payload longer than MAXBUF (of non-NUL bytes, so that its
\* length is what strnlen would count) makes the call fail without any
\* network I/O: no socket, no connect, no send.
C3_OversizedRequest ==
    \A t \in cfg.threads :
        (Called(t) /\ NoNul(PayloadOf(t)) /\ NBytes(PayloadOf(t)) > MAXBUF) =>
            /\ \A i \in DOMAIN ops[t] : ops[t][i].op \notin SockOps
            /\ pc[t] = "done" => ret[t] = CONN_FAILURE

\* C4: a reply buffer is never larger than MAXBUF.
C4_ReplyBufferBounded ==
    \A t \in cfg.threads : heap[t].state # "none" => heap[t].size <= MAXBUF

\* C5: a backend name that is neither "vsocket" nor "dummy" makes the call
\* fail with ENXIO before any init, get_reply or release, and the step that
\* does so changes nothing but the status and errno.
C5_UnknownBackend ==
    /\ [](\A t \in cfg.threads :
            (pc[t] = "done" /\ args[t].be_name \notin {VSOCKET_BE_NAME, DUMMY_BE_NAME}) =>
                /\ ret[t] = CONN_FAILURE
                /\ errno[t] = "ENXIO"
                /\ ops[t] = << >>
                /\ ~ conn[t].exists /\ heap[t].state = "none"
                /\ ans[t].buf \in cfg.holders)
    /\ [][\A t \in cfg.threads :
            (pc[t] = "idle" /\ pc'[t] = "done") =>
                UNCHANGED << af, afCalls, fds, conn, ans, heap >>]_vars

C5_Witness ==
    \E t \in cfg.threads :
        pc[t] = "done" /\ args[t].be_name = "Dummy" /\ errno[t] = "ENXIO"


C8_NoCrossTalk ==
    \A t \in cfg.threads :
        /\ \A i \in DOMAIN ops[t] :
              (ops[t][i].op \in SockOps /\ ~ (ops[t][i].op = "socket" /\ ops[t][i].res = "err"))
                  => ops[t][i].conn = << t, ncalls[t] >>
        /\ (pc[t] = "done" /\ ret[t] = CONN_SUCCESS /\ IsVsocket(t)) =>
              /\ conn[t].reply # << >>
              /\ heap[t].data = conn[t].reply[1].data
              /\ conn[t].wire = << Word(MAGIC), Word(req[t].mlen),
                                   Data(args[t].json_request) >>

C8_Witness ==
    \E t \in cfg.threads, u \in cfg.threads :
        /\ t # u
        /\ pc[t] = "done" /\ ret[t] = CONN_SUCCESS /\ IsVsocket(t)
        /\ pc[u] = "recv_len" /\ conn[u].exists
        /\ heap[t].data = Cat(<< Run(t, 1) >>, NUL)

\* C9: the address family is resolved once per process: VMCISock_GetAFValue
\* does not succeed a second time, also when threads race on the first use.
C9_ResolvedOnce == afCalls.ok <= 1

\* the call went through: success, on the real transport, from an echoing peer
EchoCall(t) ==
    /\ pc[t] = "done" /\ ret[t] = CONN_SUCCESS /\ IsVsocket(t)
    /\ conn[t].reply # << >> /\ conn[t].reply[1].echo

\* the round trip of payload P: length word, payload on the wire and reply
RoundTrip(t) ==
    /\ conn[t].wire[2] = Word(NBytes(PayloadOf(t)) + 1)
    /\ conn[t].wire[3] = Data(Cat(PayloadOf(t), NUL))
    /\ heap[t].data = conn[t].reply[1].data
    /\ heap[t].data = Cat(PayloadOf(t), NUL)

\* C10 (as stated): for every byte sequence P of at most MAXBUF bytes, a
\* successful call against an echoing peer puts P and the terminator on the
\* wire and returns what the peer sent, which is P and the terminator.
C10_RoundTrip ==
    \A t \in cfg.threads :
        (EchoCall(t) /\ NBytes(PayloadOf(t)) <= MAXBUF) => RoundTrip(t)

\* C10 (amended): the same for every P of at most MAXBUF bytes that contains
\* no NUL byte.
C10_RoundTripCString ==
    \A t \in cfg.threads :
        (EchoCall(t) /\ NBytes(PayloadOf(t)) <= MAXBUF /\ NoNul(PayloadOf(t)))
            => RoundTrip(t)

C10_Witness ==
    \E t \in cfg.threads :
        /\ EchoCall(t) /\ NoNul(PayloadOf(t))
        /\ NBytes(PayloadOf(t)) = MAXBUF
        /\ heap[t].data = args[t].json_request

\* C11: when vsock_init fails at socket() or at connect(), the call returns
\* CONN_FAILURE and the errno the caller sees is the one the failing socket()
\* or connect() set, also when the close() of the half-opened socket inside
\* vsock_init reported an error of its own; on these paths host_request
\* returns without get_reply and without release_sock.
C11_InitFailureErrno ==
    \A t \in cfg.threads :
        (pc[t] = "done" /\ IsVsocket(t)) =>
            /\ HasOp(t, "socket", "err") =>
                  /\ ret[t] = CONN_FAILURE
                  /\ errno[t] \in SocketErrnos
                  /\ CountOps(t, "connect") = 0 /\ CountOps(t, "close") = 0
            /\ HasOp(t, "connect", "err") =>
                  /\ ret[t] = CONN_FAILURE
                  /\ errno[t] \in ConnectErrnos
                  /\ errno[t] = lcl[t].old_errno
                  /\ CountOps(t, "send_magic") = 0

C11_Witness ==
    \E t \in cfg.threads :
        /\ pc[t] = "done" /\ IsVsocket(t) /\ ret[t] = CONN_FAILURE
        /\ HasOp(t, "connect", "err")
        /\ HasOp(t, "close", "err")
        /\ errno[t] \in ConnectErrnos

\* the sends and receives of vsock_get_reply in program order
IoOrder == << "send_magic", "send_len", "send_payload",
             "recv_magic", "recv_len", "recv_payload" >>
IsIo(o) == \E i \in DOMAIN IoOrder : o.op = IoOrder[i]
\* the sends and receives the current call of t has made so far, in order
IoOps(t) == SelectSeq(ops[t], IsIo)

\* C12: within one call on the real transport the sends and receives made so
\* far are always a prefix of  send magic, send length, send payload, receive
\* magic, receive length, receive payload,  each made once as an operation of
\* its own (one item on the wire per send); a send or receive that fails or
\* comes back short is the last one of the call, and the call then returns
\* CONN_FAILURE.
C12_IoOrder ==
    \A t \in cfg.threads :
        LET io == IoOps(t)
        IN  /\ Len(io) <= Len(IoOrder)
            /\ \A i \in DOMAIN io :
                  /\ io[i].op = IoOrder[i]
                  /\ io[i].res # "ok" => i = Len(io)
            /\ conn[t].exists =>
                  Len(conn[t].wire) =
                      Cardinality({ i \in DOMAIN io :
                          i <= 3 /\ io[i].res \in {"ok", "short"} })
            /\ (pc[t] = "done" /\ \E i \in DOMAIN io : io[i].res # "ok")
                  => ret[t] = CONN_FAILURE

C12_Witness ==
    \E t \in cfg.threads :
        /\ pc[t] = "done" /\ ret[t] = CONN_FAILURE
        /\ Len(IoOps(t)) = 5
        /\ HasOp(t, "recv_len", "short")

\* C13: a failed call reports the failure of its first failing step: status
\* CONN_FAILURE and the errno that step set (ENXIO for an unknown backend,
\* EAFNOSUPPORT, the errno of the failing socket, connect, send or recv, or
\* EBADMSG for a wrong magic), whatever the release that follows does.
C13_FirstFailureReported ==
    \A t \in cfg.threads :
        pc[t] = "done" =>
            /\ be[t] = 0 => (ret[t] = CONN_FAILURE /\ errno[t] = "ENXIO")
            /\ HasOp(t, "GetAFValue", "err") =>
                  (ret[t] = CONN_FAILURE /\ errno[t] = "EAFNOSUPPORT")
            /\ HasOp(t, "socket", "err") =>
                  (ret[t] = CONN_FAILURE /\ errno[t] \in SocketErrnos)
            /\ HasOp(t, "connect", "err") =>
                  (ret[t] = CONN_FAILURE /\ errno[t] \in ConnectErrnos)
            /\ (\E i \in 1 .. 3 : HasOp(t, IoOrder[i], "err")) =>
                  (ret[t] = CONN_FAILURE /\ errno[t] \in SendErrnos)
            /\ (\E i \in 4 .. 6 : HasOp(t, IoOrder[i], "err")) =>
                  (ret[t] = CONN_FAILURE /\ errno[t] \in RecvErrnos)
            /\ (BadMagicSeen(t) /\ IsVsocket(t)) =>
                  (ret[t] = CONN_FAILURE /\ errno[t] \in {"EBADMSG"})

\* C14: the handle of a call carries one request and at most one reply and
\* is not used after release: every connect, send, receive and close acts on
\* a descriptor that is open at that moment, nothing is done on the socket
\* after its close (also when the close is the one inside vsock_init after a
\* failed connect), and the connection is closed at most once.
C14_NoUseAfterRelease ==
    \A t \in cfg.threads :
        /\ \A i \in DOMAIN ops[t] :
              /\ ops[t][i].op \in SockOps \ {"socket"} => ops[t][i].conn # << >>
              /\ ops[t][i].op = "close" =>
                    \A j \in DOMAIN ops[t] : j > i => ops[t][j].op \notin SockOps
        /\ CountOps(t, "send_payload") <= 1
        /\ CountOps(t, "recv_payload") <= 1
        /\ Len(conn[t].reply) <= 1
        /\ conn[t].closes <= 1

C14_Witness ==
    \E t \in cfg.threads :
        /\ pc[t] = "done" /\ id[t].init
        /\ HasOp(t, "connect", "err")
        /\ conn[t].closes = 1
        /\ fds[id[t].sock_id] = << >>

\* C15: for a request of NUL-free payload P on the real transport, the
\* length word put on the wire is the byte count of P plus one, it is at
\* most MAXBUF, and the payload bytes put on the wire are that many and end
\* with the terminating NUL.
C15_LengthField ==
    \A t \in cfg.threads :
        (IsVsocket(t) /\ NoNul(PayloadOf(t)) /\ HasOp(t, "send_len", "ok")) =>
            /\ conn[t].wire[2] = Word(NBytes(PayloadOf(t)) + 1)
            /\ conn[t].wire[2].w <= MAXBUF
            /\ HasOp(t, "send_payload", "ok") =>
                  /\ NBytes(conn[t].wire[3].d) = conn[t].wire[2].w
                  /\ LastByte(conn[t].wire[3].d) = 0

\* the connection the current call of t opened is no longer in the
\* descriptor table
Released(t) == \A f \in Fds : fds[f] # << t, ncalls[t] >>

\* C16: every call that has been started returns (when the thread keeps
\* running and each socket call comes back), and when it has returned its
\* connection is released; there is no timeout: a call leaves a recv() only
\* because the peer has answered or because the recv() reported an error.
C16_EveryCallReturns ==
    /\ \A t \in AllThreads : (pc[t] \notin {"idle", "done"}) ~> (pc[t] = "done")
    /\ [](\A t \in AllThreads : pc[t] = "done" => Released(t))
    /\ [][\A t \in AllThreads :
            (pc[t] \in {"recv_magic", "recv_len", "recv_payload"} /\ pc'[t] # pc[t])
                => \/ Incoming(id[t].sock_id) # << >>
                   \/ ops'[t][Len(ops'[t])].res = "err"]_vars

C16_Witness ==
    \E t \in cfg.threads :
        /\ pc[t] = "done" /\ conn[t].exists /\ Released(t)
        /\ Len(conn[t].wire) = 3 /\ conn[t].reply = << >>
        /\ HasOp(t, "recv_magic", "err")

\* C17: what a call reports is made by that call: a call on the dummy
\* backend returns success and the reply "none" whatever came before it, and
\* a failed call with a known backend name does not report ENXIO, the errno
\* that only a call with an unknown backend name sets.
C17_SelfContained ==
    \A t \in cfg.threads :
        pc[t] = "done" =>
            /\ IsDummy(t) =>
                  (ret[t] = CONN_SUCCESS /\ heap[t].data = NoneReply)
            /\ (be[t] # 0 /\ ret[t] = CONN_FAILURE) => errno[t] # "ENXIO"

\* position in the log of the call of t at which the call created its socket
\* (0 when it has not)
SocketAt(t) ==
    IF SocketCreated(t)
    THEN CHOOSE i \in DOMAIN ops[t] : ops[t][i].op = "socket" /\ ops[t][i].res = "ok"
    ELSE 0

\* C18: close is only ever invoked on the descriptor the call itself got
\* from a successful socket(), after that socket() and while the descriptor
\* is still open, so not at all when the address family or socket() failed;
\* and when the call has returned, a socket it created has been closed
\* exactly once and is no longer in the descriptor table.
C18_NoLeakNoStrayClose ==
    \A t \in cfg.threads :
        /\ \A i \in DOMAIN ops[t] :
              ops[t][i].op = "close" =>
                  /\ SocketAt(t) # 0 /\ SocketAt(t) < i
                  /\ ops[t][i].fd = ops[t][SocketAt(t)].fd
                  /\ ops[t][i].conn = << t, ncalls[t] >>
        /\ CountOps(t, "socket") <= 1
        /\ pc[t] = "done" =>
              /\ Released(t)
              /\ CountOps(t, "close") = (IF SocketAt(t) # 0 THEN 1 ELSE 0)
              /\ conn[t].closes = (IF SocketAt(t) # 0 THEN 1 ELSE 0)

C18_Witness ==
    \E t \in cfg.threads :
        /\ pc[t] = "done" /\ IsVsocket(t)
        /\ ncalls[t] = 2
        /\ HasOp(t, "socket", "err")
        /\ CountOps(t, "close") = 0
        /\ \A f \in Fds : fds[f] = << >>

\* C19: a->buf of the caller's answer holder is written by the allocation
\* of the reply buffer (line 262) and by the dummy backend's reply and by
\* nothing else: a call that fails before the allocation (unknown backend,
\* failed init, failed or short send, failed or short read of magic or
\* length, wrong magic) steps through without changing the holder.
C19_AnswerHolderFrame ==
    [][\A t \in AllThreads :
          ans'[t] # ans[t] =>
              \/ pc[t] = "calloc"
              \/ pc[t] = "get_reply" /\ IsDummy(t)
              \/ pc[t] = "done" /\ pc'[t] = "idle"]_vars

C19_Witness ==
    \E t \in cfg.threads :
        /\ pc[t] = "done" /\ ret[t] = CONN_FAILURE
        /\ BadMagicSeen(t)
        /\ CountOps(t, "calloc") = 0
        /\ ans[t].buf = "A"

\* C20, for calls made one after the other: a call in which the address
\* family resolution fails returns CONN_FAILURE with EAFNOSUPPORT, has made
\* no socket and leaves af unresolved; a call on the real transport resolves
\* the family exactly when af is still unresolved, so after a failure the
\* next call tries again; and once af is resolved it never changes, no
\* further resolution is made and sockets are created with that value.
C20_FamilyResolution ==
    /\ [](\A t \in AllThreads :
            (pc[t] = "done" /\ HasOp(t, "GetAFValue", "err")) =>
                /\ ret[t] = CONN_FAILURE
                /\ errno[t] = "EAFNOSUPPORT"
                /\ CountOps(t, "socket") = 0 /\ ~ conn[t].exists
                /\ af = AF_UNSET)
    /\ [][\A t \in AllThreads :
            (pc[t] = "init" /\ IsVsocket(t) /\ pc'[t] # "init") =>
                pc'[t] = (IF af = AF_UNSET THEN "af_call" ELSE "af_ret")]_vars
    /\ [][af # AF_UNSET => (af' = af /\ afCalls' = afCalls)]_vars
    /\ [][\A t \in AllThreads :
            (pc[t] = "af_ret" /\ pc'[t] = "socket") =>
                (af # AF_UNSET /\ lcl'[t].af = af)]_vars

C20_Witness ==
    \E t \in cfg.threads :
        /\ ncalls[t] = 2 /\ pc[t] = "socket"
        /\ afCalls = [total |-> 2, ok |-> 1]
        /\ HasOp(t, "GetAFValue", "ok")
        /\ lcl[t].af = AF_VMCI

====
